---- MODULE Spec2Model ----
(***************************************************************************)
(* Model of the batch extraction pipeline of main.py: process_csv reads    *)
(* the rows of a CSV file, groups the non-empty ones into batches,         *)
(* submits each batch to a ThreadPoolExecutor running process_batch,       *)
(* which calls the extractor, validates the answer with the Company        *)
(* model and inserts the rows into the companies table; the table is       *)
(* copied to the output file when every batch is done.                     *)
(*                                                                         *)
(* Strings are sequences of one-character strings, so that the regular     *)
(* expressions and substring tests of the validators are computed and not  *)
(* assumed.  Python's None is the one-element sequence None.               *)
(***************************************************************************)
EXTENDS Integers, Sequences, FiniteSets, TLC

\* ------------------------------------------------------------ bounds
\* Longest input file, in rows after the header.
MaxRows == 3
\* Largest --batch-size option tried (the smallest is 1).
MaxBatch == 2
\* Number of rows of the one-row-per-batch input that fills the worker pool.
PoolRows == 5
\* Largest number of pieces a value given to a validator is made of.
MaxPieces == 3

\* ------------------------------------------------------------ strings
None == <<"<None>">>
ValueError == <<"<ValueError>">>

S_Acme == <<"A", "c", "m", "e">>
S_Beta == <<"B", "e", "t", "a">>
S_Solo == <<"S", "o", "l", "o">>
S_None == <<"N", "o", "n", "e">>
S_Phone == <<"5", "5", "5", "-", "1", "2", "3", "4", "5", "6", "7">>
S_BadEmail == <<"b", "a", "d", "-", "e", "m", "a", "i", "l">>
S_GoodEmail == <<"a", "@", "b", ".", "i", "o">>
S_LinkedIn == <<"h", "t", "t", "p", "s", ":", "/", "/", "l", "i", "n", "k", "e", "d", "i", "n", ".", "c", "o", "m", "/", "a", "c", "m", "e">>
S_NotLinkedIn == <<"h", "t", "t", "p", "s", ":", "/", "/", "e", "x", "a", "m", "p", "l", "e", ".", "c", "o", "m", "/", "a", "c", "m", "e">>
S_Twitter == <<"h", "t", "t", "p", "s", ":", "/", "/", "x", ".", "c", "o", "m", "/", "a", "c", "m", "e">>
S_Web == <<"h", "t", "t", "p", "s", ":", "/", "/", "a", "c", "m", "e", ".", "i", "o">>
S_Ticket == <<"$", "1", "M">>
S_OddTicket == <<"U+00E2", "1", "M">>
S_Fintech == <<"F", "i", "n", "t", "e", "c", "h">>

LINKEDIN == <<"l", "i", "n", "k", "e", "d", "i", "n", ".", "c", "o", "m">>
TWITTER == <<"t", "w", "i", "t", "t", "e", "r", ".", "c", "o", "m">>
XCOM == <<"x", ".", "c", "o", "m">>
HTTP == <<"h", "t", "t", "p", ":", "/", "/">>
HTTPS == <<"h", "t", "t", "p", "s", ":", "/", "/">>

Digits == {"0", "1", "2", "3", "4", "5", "6", "7", "8", "9"}

\* s[i..] starts with the sequence p.
StartsAt(s, i, p) ==
    /\ i + Len(p) - 1 <= Len(s)
    /\ \A j \in 1..Len(p) : s[i + j - 1] = p[j]

\* Python's `p in s` for strings.
Contains(s, p) == \E i \in 1..(Len(s) + 1) : StartsAt(s, i, p)

\* Python's truth value of an optional string: None and "" are false.
Truthy(v) == v # None /\ v # <<>>

\* re.sub(r"[^\d+]", "", value): the digits and the plus signs of value, in order.
RECURSIVE StripPhone(_)
StripPhone(s) ==
    IF s = <<>> THEN <<>>
    ELSE IF Head(s) \in Digits \cup {"+"}
         THEN <<Head(s)>> \o StripPhone(Tail(s))
         ELSE StripPhone(Tail(s))

\* re.compile(r"^\+?[0-9]{7,15}$").match(s)
MatchesPhone(s) ==
    LET d == IF s # <<>> /\ Head(s) = "+" THEN Tail(s) ELSE s
    IN  /\ Len(d) >= 7
        /\ Len(d) <= 15
        /\ \A i \in 1..Len(d) : d[i] \in Digits

\* value without its first character that is neither a digit nor a plus sign.
RECURSIVE StripFirst(_)
StripFirst(s) ==
    IF s = <<>> THEN <<>>
    ELSE IF Head(s) \in Digits \cup {"+"}
         THEN <<Head(s)>> \o StripFirst(Tail(s))
         ELSE Tail(s)

\* A validator whose re.sub replaces one character only (count=1) and that
\* accepts the number when its digits are right.
validate_phone_number_StripOnce(value) ==
    IF Truthy(value)
    THEN IF MatchesPhone(StripPhone(value)) THEN StripFirst(value) ELSE ValueError
    ELSE value

\* Company.validate_phone_number: the stripped number, or ValueError.
validate_phone_number(value) ==
    IF Truthy(value)
    THEN IF MatchesPhone(StripPhone(value)) THEN StripPhone(value) ELSE ValueError
    ELSE value

\* Company.validate_linkedin_url, on the text of the URL: the value, or ValueError.
validate_linkedin_url(value) ==
    IF Truthy(value) /\ ~Contains(value, LINKEDIN) THEN ValueError ELSE value

\* Company.validate_x_twitter_url, on the text of the URL: the value, or ValueError.
validate_x_twitter_url(value) ==
    IF Truthy(value) /\ ~(\E domain \in {TWITTER, XCOM} : Contains(value, domain))
    THEN ValueError
    ELSE value

\* The characters of the class [\$...] of the ticket pattern as the source file
\* holds it: the dollar sign and the four characters U+00E2, U+201A, U+00AC and
\* U+00B9 (the euro and rupee signs are not among them).
TicketCurrency == {"$", "U+00E2", "U+201A", "U+00AC", "U+00B9"}

\* \s of Python's re, for the characters the inputs use.
Whitespace == {" ", "\t", "\n", "\r"}

\* re.IGNORECASE on the letters of the ticket suffixes.
Lower(c) ==
    CASE c = "M" -> "m" [] c = "K" -> "k" [] c = "C" -> "c" [] c = "R" -> "r"
      [] c = "L" -> "l" [] c = "I" -> "i" [] c = "O" -> "o" [] c = "N" -> "n"
      [] c = "T" -> "t" [] c = "H" -> "h" [] c = "U" -> "u" [] c = "S" -> "s"
      [] c = "A" -> "a" [] c = "D" -> "d" [] OTHER -> c

LowerStr(s) == [i \in 1..Len(s) |-> Lower(s[i])]

\* (M|K|Cr|L|million|thousand), lower-cased.
TicketSuffixes ==
    { <<"m">>, <<"k">>, <<"c", "r">>, <<"l">>,
      <<"m", "i", "l", "l", "i", "o", "n">>,
      <<"t", "h", "o", "u", "s", "a", "n", "d">> }

\* The number of digits of s from position i on, up to the first non-digit.
RECURSIVE DigitRun(_, _)
DigitRun(s, i) ==
    IF i <= Len(s) /\ s[i] \in Digits THEN 1 + DigitRun(s, i + 1) ELSE 0

\* s from position i to its end.
From(s, i) == IF i > Len(s) THEN <<>> ELSE SubSeq(s, i, Len(s))

\* The pattern of validate_ticket_size up to the end of s, without the rule that
\* $ also matches before a last line break.
MatchesTicketToEnd(s) ==
    LET i0 == IF s # <<>> /\ Head(s) \in TicketCurrency THEN 2 ELSE 1
        n1 == DigitRun(s, i0)
        i1 == i0 + n1
        n2 == IF i1 <= Len(s) /\ s[i1] = "." THEN DigitRun(s, i1 + 1) ELSE 0
        i2 == IF n2 > 0 THEN i1 + 1 + n2 ELSE i1
        i3 == IF i2 <= Len(s) /\ s[i2] \in Whitespace THEN i2 + 1 ELSE i2
    IN  /\ n1 >= 1
        /\ \/ From(s, i3) = <<>>
           \/ LowerStr(From(s, i3)) \in TicketSuffixes

\* re.compile(r"^[\$..]?[0-9]+(\.[0-9]+)?\s?(M|K|Cr|L|million|thousand)?$",
\* re.IGNORECASE).match(s)
MatchesTicket(s) ==
    \/ MatchesTicketToEnd(s)
    \/ /\ s # <<>>
       /\ s[Len(s)] = "\n"
       /\ MatchesTicketToEnd(SubSeq(s, 1, Len(s) - 1))

\* Company.validate_ticket_size: the value, or ValueError.
validate_ticket_size(value) ==
    IF Truthy(value) /\ ~MatchesTicket(value) THEN ValueError ELSE value

\* re.compile(r"^\+?[0-9\s\-\(\)]{7,20}$").match(s): $ also matches before a
\* newline that ends s.
MatchesLoosePhone(s) ==
    LET d == IF s # <<>> /\ Head(s) = "+" THEN Tail(s) ELSE s
        class == Digits \cup Whitespace \cup {"-", "(", ")"}
        body == IF Len(d) > 20 /\ d[Len(d)] = "\n" THEN SubSeq(d, 1, Len(d) - 1) ELSE d
    IN  /\ Len(body) >= 7
        /\ Len(body) <= 20
        /\ \A i \in 1..Len(body) : body[i] \in class

\* The function validate_phone_number of the module (not the validator of
\* Company): the value, or None.
module_validate_phone_number(value) ==
    IF Truthy(value) /\ ~MatchesLoosePhone(value) THEN None ELSE value

\* The function validate_linkedin_url of the module: the value, or None.
module_validate_linkedin_url(value) ==
    IF Truthy(value) /\ ~Contains(value, LINKEDIN) THEN None ELSE value

\* The function validate_x_twitter_url of the module: the value, or None.
module_validate_x_twitter_url(value) ==
    IF Truthy(value) /\ ~(\E domain \in {TWITTER, XCOM} : Contains(value, domain))
    THEN None
    ELSE value

\* pydantic's EmailStr, as far as the inputs need it: one @, a local part, and a
\* domain with a period inside it.  The value is kept as written.
EmailStr(value) ==
    LET ats == {i \in 1..Len(value) : value[i] = "@"}
        at == CHOOSE i \in ats : TRUE
        dom == From(value, at + 1)
    IN  IF /\ Cardinality(ats) = 1
           /\ at > 1
           /\ \E i \in 2..(Len(dom) - 1) : dom[i] = "."
           /\ \A i \in 1..Len(value) : value[i] \notin Whitespace
        THEN value
        ELSE ValueError

\* pydantic's HttpUrl, as far as the inputs need it: an http or https scheme and
\* a host; a URL without a path gets the path "/".
HttpUrl(value) ==
    LET scheme == IF StartsAt(value, 1, HTTPS) THEN HTTPS
                  ELSE IF StartsAt(value, 1, HTTP) THEN HTTP ELSE <<>>
        rest == From(value, Len(scheme) + 1)
    IN  IF scheme = <<>> \/ rest = <<>> \/ Head(rest) = "/"
        THEN ValueError
        ELSE IF \E i \in 1..Len(rest) : rest[i] = "/" THEN value
             ELSE value \o <<"/">>

\* A value through a type check and then a field validator; an error of the
\* first is the error of the field.
Then(typed, validator(_)) == IF typed = ValueError THEN ValueError ELSE validator(typed)

\* The columns of the companies table and the fields of Company, in order.
Columns ==
    << "Company_Name", "Company_Website", "Company_Location",
       "Company_Phone_Number", "Email", "LinkedIn_Link", "Sector", "Ticket_Size",
       "X_Twitter_Account_Link", "Funding_Round", "Individual_or_Corporation" >>

Fields == {Columns[i] : i \in 1..Len(Columns)}

\* The validation of one field of Company: its type, then its field_validator.
\* The result is the field's value in the model, or ValueError.
ValidateField(k, v) ==
    CASE k = "Company_Name" -> IF v = None THEN ValueError ELSE v
      [] k = "Company_Website" -> IF v = None THEN None ELSE HttpUrl(v)
      [] k = "Company_Phone_Number" -> validate_phone_number(v)
      [] k = "Email" -> IF v = None THEN None ELSE EmailStr(v)
      [] k = "LinkedIn_Link" ->
            IF v = None THEN None ELSE Then(HttpUrl(v), validate_linkedin_url)
      [] k = "Ticket_Size" -> validate_ticket_size(v)
      [] k = "X_Twitter_Account_Link" ->
            IF v = None THEN None ELSE Then(HttpUrl(v), validate_x_twitter_url)
      [] OTHER -> v

\* Company(**obj): the model of one object of the answer, every field validated.
Company(obj) == [k \in Fields |-> ValidateField(k, obj[k])]

\* The object does not validate: pydantic raises ValidationError.
Invalid(obj) == \E k \in Fields : ValidateField(k, obj[k]) = ValueError

\* ------------------------------------------------------------ inputs
\* Rows of the input file as csv.reader yields them: a line of empty fields and
\* two lines with text.
RawRows == { <<"", "">>, <<"Acme", "555-1234567">>, <<"Beta", "">> }

\* The files tried: every sequence of at most MaxRows rows, and the file of
\* PoolRows rows with text that, one row a batch, has more batches than workers.
Inputs == UNION {[1..n -> RawRows] : n \in 0..MaxRows}

PoolInput == [i \in 1..PoolRows |-> <<"Acme", "555-1234567">>]

\* A file of three rows with text, a blank line and a line of empty fields.
RichInput == << <<"Acme", "555-1234567">>, <<>>, <<"Beta", "">>, <<"", "">>,
                <<"Acme", "555-1234567">> >>

\* An object of the extractor's answer with no field set.
Blank == [k \in Fields |-> None]

ObjAcme ==
    [Blank EXCEPT !["Company_Name"] = S_Acme, !["Company_Phone_Number"] = S_Phone]
ObjBeta ==
    [Blank EXCEPT !["Company_Name"] = S_Beta, !["Company_Website"] = S_Web,
                  !["Email"] = S_GoodEmail, !["LinkedIn_Link"] = S_LinkedIn,
                  !["Sector"] = S_Fintech, !["Ticket_Size"] = S_Ticket,
                  !["X_Twitter_Account_Link"] = S_Twitter]
ObjSolo == [Blank EXCEPT !["Company_Name"] = S_Solo]
ObjBadEmail ==
    [Blank EXCEPT !["Company_Name"] = S_Acme, !["Company_Phone_Number"] = S_Phone,
                  !["Email"] = S_BadEmail]
ObjBadLinkedIn ==
    [Blank EXCEPT !["Company_Name"] = S_Beta, !["LinkedIn_Link"] = S_NotLinkedIn,
                  !["Sector"] = S_Fintech]
ObjNoName == [Blank EXCEPT !["Company_Name"] = <<>>, !["Sector"] = S_Fintech]
ObjEmpty == [Blank EXCEPT !["Company_Name"] = <<>>, !["Sector"] = S_None]
ObjOddTicket == [Blank EXCEPT !["Company_Name"] = S_Solo, !["Ticket_Size"] = S_OddTicket]

\* What a call of the extractor can end with: chat() raises, or it returns the
\* JSON text of a list of objects.
ChatError == [kind |-> "error", companies |-> <<>>]
Json(objs) == [kind |-> "json", companies |-> objs]
NoAnswer == [kind |-> "none", companies |-> <<>>]

Answers ==
    { ChatError,
      Json(<<>>),
      Json(<<ObjAcme>>),
      Json(<<ObjBeta, ObjSolo>>),
      Json(<<ObjAcme, ObjBadEmail>>),
      Json(<<ObjBadLinkedIn, ObjAcme>>),
      Json(<<ObjNoName, ObjEmpty, ObjOddTicket>>) }

\* The answers of an extractor that either fails or finds one company.
PlainAnswers == { ChatError, Json(<<ObjAcme>>) }

\* The answers of an extractor that either fails or finds nothing.
TerseAnswers == { ChatError, Json(<<>>) }

\* ------------------------------------------------------------ process_batch
\* PartialCompanyList.model_validate_json raises ValidationError.
ValidationError(answer) ==
    \E i \in 1..Len(answer.companies) : Invalid(answer.companies[i])

\* extract_data_from_batch without the validation of the answer.
ExtractionFails_ChatOnly(answer) == answer.kind = "error"

\* The call extract_data_from_batch(rows) raises: chat() failed, or the answer
\* does not validate.
ExtractionFails(answer) == answer.kind = "error" \/ ValidationError(answer)

\* structured_data_batch.companies
Companies(answer) == [i \in 1..Len(answer.companies) |-> Company(answer.companies[i])]

\* v not in [None, "", "None"]
Kept(v) == v \notin {None, <<>>, S_None}

\* valid_data: the dictionary of the fields of the model that are kept.
valid_data(model) == [k \in {f \in Fields : Kept(model[f])} |-> model[k]]

\* d.get(k, "")
Get(d, k) == IF k \in DOMAIN d THEN d[k] ELSE <<>>

\* An insert without the test of valid_data.
InsertFilter_Always(model) == TRUE

\* if valid_data:
InsertFilter(model) == DOMAIN valid_data(model) # {}

\* The row of the INSERT statement.
Row(model) == [i \in 1..Len(Columns) |-> Get(valid_data(model), Columns[i])]

\* any(row) of a row of the file.
any(row) == \E i \in 1..Len(row) : row[i] # ""

\* ------------------------------------------------------------ state
VARIABLES
    csv,            \* the rows of the input file after the header
    batch_size,     \* the --batch-size option
    extractor,      \* the extraction service of this run: "varied", "plain" or "terse"
    pc,             \* where process_csv is: count, read, wait, copy, done
    pos,            \* the next row csv_reader yields
    rows_buffer,    \* the rows of the batch being filled
    total_rows,     \* total of the progress bar
    pbar_n,         \* count of the progress bar
    futures,        \* the submitted batches, in order of submission
    work_queue,     \* the executor's queue: indices of futures not yet started
    num_threads,    \* worker threads the executor has started
    idle_semaphore, \* the executor's count of workers that wait for work
    awaited,        \* how many futures as_completed has yielded
    companies,      \* the rows of the companies table, in order of insertion
    error_log,      \* the lines log_error has written
    output_csv,     \* the rows of the output file
    exports,        \* how many times the table was copied to the output file
    source,         \* the input file: "ok", "unreadable" or "no_header"
    error_log_path, \* the --error-log option
    staging,        \* the companies table: "sound", or "faulty" when an INSERT can fail
    v_kind,         \* the validator a validator run applies ("none" in a pipeline run)
    v_in,           \* the value a validator run starts from
    v_out           \* the results of a validator run, in order

\* What a run is started with and never changes.
settings == << source, error_log_path, staging >>

\* The state of a validator run.
probe == << v_kind, v_in, v_out >>

vars ==
    << csv, batch_size, extractor, pc, pos, rows_buffer, total_rows, pbar_n,
       futures, work_queue, num_threads, idle_semaphore, awaited, companies,
       error_log, output_csv, exports, source, error_log_path, staging,
       v_kind, v_in, v_out >>

\* logging.basicConfig(filename="error_log.txt"): the file log_error writes to.
LoggingFile == "error_log.txt"

\* A value of --error-log other than its default.
OtherFile == "errors.txt"

\* ThreadPoolExecutor(max_workers=4)
max_workers == 4

\* What a call of the extractor of this run can end with.
Service ==
    CASE extractor = "varied" -> Answers
      [] extractor = "plain" -> PlainAnswers
      [] extractor = "terse" -> TerseAnswers

\* The futures a worker is running.
Running == {i \in 1..Len(futures) : futures[i].state = "RUNNING"}

\* The futures whose call of the extractor has not returned yet.
InFlight == {i \in Running : futures[i].step = "extract"}

Finished == {i \in 1..Len(futures) : futures[i].state = "FINISHED"}

\* The state of a run before its input file is opened: the table is created and
\* empty.
Start ==
    /\ pc = "open"
    /\ pos = 1
    /\ rows_buffer = <<>>
    /\ total_rows = 0
    /\ pbar_n = 0
    /\ futures = <<>>
    /\ work_queue = <<>>
    /\ num_threads = 0
    /\ idle_semaphore = 0
    /\ awaited = 0
    /\ companies = <<>>
    /\ error_log = <<>>
    /\ output_csv = <<>>
    /\ exports = 0
    /\ v_kind = "none"
    /\ v_in = <<>>
    /\ v_out = <<>>

\* Every file of at most MaxRows rows, with an extractor that fails or finds one
\* company.
PlainRuns ==
    /\ source = "ok"
    /\ csv \in Inputs
    /\ batch_size \in 1..MaxBatch
    /\ extractor = "plain"
    /\ error_log_path = LoggingFile

\* The file RichInput with every answer of the extractor.
RichRuns ==
    /\ source = "ok"
    /\ csv = RichInput
    /\ batch_size \in 1..MaxBatch
    /\ extractor = "varied"

\* More batches than workers.
PoolRuns ==
    /\ source = "ok"
    /\ csv = PoolInput
    /\ batch_size = 1
    /\ extractor = "terse"
    /\ error_log_path = LoggingFile

\* The input file cannot be opened, or it is empty and has no header row.
FailedRuns ==
    /\ source \in {"unreadable", "no_header"}
    /\ csv = <<>>
    /\ batch_size \in 1..MaxBatch
    /\ extractor = "plain"
    /\ error_log_path = LoggingFile

Init ==
    /\ Start
    /\ staging = "sound"
    /\ \/ PlainRuns
       \/ RichRuns /\ error_log_path \in {LoggingFile, OtherFile}
       \/ PoolRuns
       \/ FailedRuns

\* ------------------------------------------------------------ process_csv
\* A run that goes on without its input file.
Opens_Always(src) == TRUE

\* open(input_csv) and headers = next(csv_reader) raise nothing.
Opens(src) == src = "ok"

\* with open(input_csv, ...) as csvfile, ...; headers = next(csv_reader): an
\* exception of either leaves process_csv.
Open ==
    /\ pc = "open"
    /\ pc' = IF Opens(source) THEN "count" ELSE "failed"
    /\ UNCHANGED << settings, probe, csv, batch_size, extractor, pos, rows_buffer,
                    total_rows, pbar_n, futures, work_queue, num_threads,
                    idle_semaphore, awaited, companies, error_log, output_csv,
                    exports >>

\* total_rows = sum(1 for _ in csv_reader), and the reader set back to the
\* first row.
Count ==
    /\ pc = "count"
    /\ total_rows' = Len(csv)
    /\ pos' = 1
    /\ pc' = "read"
    /\ UNCHANGED << settings, probe, csv, batch_size, extractor, rows_buffer, pbar_n, futures,
                    work_queue, num_threads, idle_semaphore, awaited, companies,
                    error_log, output_csv, exports >>

\* The future executor.submit(process_batch, rows) returns.
NewFuture(rows) ==
    [ rows |-> rows, state |-> "PENDING", step |-> "extract", todo |-> <<>>,
      answer |-> NoAnswer, calls |-> 0, staged |-> 0, raised |-> 0 ]

\* An executor that starts a thread for every item no waiting worker takes.
AdjustThreadCount_Unbounded(idle, threads) ==
    IF idle > 0 THEN << idle - 1, threads >> ELSE << idle, threads + 1 >>

\* ThreadPoolExecutor._adjust_thread_count: a worker that waits for work is
\* counted down, else a thread is started while there are fewer than
\* max_workers.  The result is << idle_semaphore, num_threads >>.
AdjustThreadCount(idle, threads) ==
    IF idle > 0 THEN << idle - 1, threads >>
    ELSE IF threads < max_workers THEN << idle, threads + 1 >>
    ELSE << idle, threads >>

\* executor.submit(process_batch, rows); futures.append(...)
Submit(rows) ==
    /\ futures' = Append(futures, NewFuture(rows))
    /\ work_queue' = Append(work_queue, Len(futures) + 1)
    /\ idle_semaphore' = AdjustThreadCount(idle_semaphore, num_threads)[1]
    /\ num_threads' = AdjustThreadCount(idle_semaphore, num_threads)[2]

\* The test of the batch with > for >=.
BatchFull_Strict(buffer) == Len(buffer) > batch_size

\* len(rows_buffer) >= batch_size
BatchFull(buffer) == Len(buffer) >= batch_size

\* A loop that does not skip the rows without text.
Skipped_Never(row) == FALSE

\* if not any(row): continue
Skipped(row) == ~any(row)

\* A buffer that takes the new row at its front.
AddRow_Front(buffer, row) == << row >> \o buffer

\* rows_buffer.append(row)
AddRow(buffer, row) == Append(buffer, row)

\* One turn of `for row in csv_reader`.
ReadRow ==
    /\ pc = "read"
    /\ pos <= Len(csv)
    /\ pos' = pos + 1
    /\ IF Skipped(csv[pos])
       THEN UNCHANGED << rows_buffer, pbar_n, futures, work_queue, num_threads,
                         idle_semaphore >>
       ELSE /\ IF BatchFull(AddRow(rows_buffer, csv[pos]))
               THEN /\ Submit(AddRow(rows_buffer, csv[pos]))
                    /\ rows_buffer' = <<>>
               ELSE /\ rows_buffer' = AddRow(rows_buffer, csv[pos])
                    /\ UNCHANGED << futures, work_queue, num_threads,
                                    idle_semaphore >>
            /\ pbar_n' = pbar_n + 1
    /\ UNCHANGED << settings, probe, csv, batch_size, extractor, pc, total_rows, awaited,
                    companies, error_log, output_csv, exports >>

\* The end of the loop: the rows left in the buffer are submitted.
Remaining ==
    /\ pc = "read"
    /\ pos > Len(csv)
    /\ IF rows_buffer # <<>>
       THEN /\ Submit(rows_buffer)
            /\ pbar_n' = pbar_n + Len(rows_buffer)
       ELSE UNCHANGED << pbar_n, futures, work_queue, num_threads,
                         idle_semaphore >>
    /\ pc' = "wait"
    /\ UNCHANGED << settings, probe, csv, batch_size, extractor, pos, rows_buffer, total_rows,
                    awaited, companies, error_log, output_csv, exports >>

\* ------------------------------------------------------------ workers
\* A worker thread without work takes the first item of the queue and calls
\* process_batch, which calls extract_data_from_batch.
Take ==
    /\ work_queue # <<>>
    /\ Cardinality(Running) < num_threads
    /\ LET i == Head(work_queue)
       IN  futures' = [futures EXCEPT ![i].state = "RUNNING",
                                      ![i].step = "extract",
                                      ![i].calls = @ + 1]
    /\ work_queue' = Tail(work_queue)
    /\ UNCHANGED << settings, probe, csv, batch_size, extractor, pc, pos, rows_buffer, total_rows,
                    pbar_n, num_threads, idle_semaphore, awaited, companies,
                    error_log, output_csv, exports >>

\* A worker that has run its item and finds the queue empty waits for work.
Release(idle) == IF work_queue = <<>> THEN idle + 1 ELSE idle

\* A process_batch that calls the extractor again after a failure.
FailedCall_Retry(f, answer) == [f EXCEPT !.answer = answer, !.calls = @ + 1]

\* A process_batch that does not return after a failure.
FailedCall_Stuck(f, answer) == [f EXCEPT !.answer = answer, !.step = "stuck"]

\* The future after the except clauses of process_batch: the batch is skipped.
FailedCall(f, answer) == [f EXCEPT !.answer = answer, !.state = "FINISHED"]

\* The call of the extractor of future i ends with `answer`.  A failure is
\* caught and logged by process_batch, which returns.
ExtractReturn(i, answer) ==
    /\ i \in InFlight
    /\ IF ExtractionFails(answer)
       THEN /\ error_log' = Append(error_log,
                  [ unit |-> i,
                    message |-> IF answer.kind = "error"
                                THEN "Skipping batch due to unexpected error"
                                ELSE "Skipping batch due to validation error" ])
            /\ futures' = [futures EXCEPT ![i] = FailedCall(@, answer)]
            /\ idle_semaphore' = Release(idle_semaphore)
       ELSE /\ IF Companies(answer) = <<>>
               THEN /\ futures' = [futures EXCEPT ![i].answer = answer,
                                                  ![i].state = "FINISHED"]
                    /\ idle_semaphore' = Release(idle_semaphore)
               ELSE /\ futures' = [futures EXCEPT ![i].answer = answer,
                                                  ![i].step = "insert",
                                                  ![i].todo = Companies(answer)]
                    /\ UNCHANGED idle_semaphore
            /\ UNCHANGED error_log
    /\ UNCHANGED << settings, probe, csv, batch_size, extractor, pc, pos, rows_buffer, total_rows,
                    pbar_n, work_queue, num_threads, awaited, companies,
                    output_csv, exports >>

\* A table that keeps one row of each content.
Insert_Dedup(table, row) ==
    IF \E n \in 1..Len(table) : table[n] = row THEN table ELSE Append(table, row)

\* INSERT INTO companies VALUES (?, ?, ?, ?, ?, ?, ?, ?)
Insert(table, row) == Append(table, row)

\* What conn.execute can do: return, or (FALSE) raise when the table is faulty.
InsertOutcomes == IF staging = "faulty" THEN {TRUE, FALSE} ELSE {TRUE}

\* One turn of `for structured_data in structured_data_batch.companies`; after
\* the last one process_batch returns.  conn.execute is one step: the INSERT of
\* a row is not interleaved with another one.  When it raises (ok = FALSE) the
\* exception leaves the loop, `except Exception` logs it and process_batch
\* returns: the objects left in the answer are not looked at.
InsertNext(i, ok) ==
    /\ i \in Running
    /\ futures[i].step = "insert"
    /\ LET model == Head(futures[i].todo)
           last == Tail(futures[i].todo) = <<>>
       IN  IF InsertFilter(model)
           THEN IF ok
                THEN /\ companies' = Insert(companies, Row(model))
                     /\ futures' = [futures EXCEPT
                           ![i].todo = Tail(@),
                           ![i].staged = @ + 1,
                           ![i].state = IF last THEN "FINISHED" ELSE @]
                     /\ idle_semaphore' = IF last THEN Release(idle_semaphore)
                                          ELSE idle_semaphore
                     /\ UNCHANGED error_log
                ELSE /\ error_log' = Append(error_log,
                           [ unit |-> i,
                             message |-> "Skipping batch due to unexpected error" ])
                     /\ futures' = [futures EXCEPT
                           ![i].todo = <<>>,
                           ![i].raised = @ + 1,
                           ![i].state = "FINISHED"]
                     /\ idle_semaphore' = Release(idle_semaphore)
                     /\ UNCHANGED companies
           ELSE /\ ok
                /\ futures' = [futures EXCEPT
                      ![i].todo = Tail(@),
                      ![i].state = IF last THEN "FINISHED" ELSE @]
                /\ idle_semaphore' = IF last THEN Release(idle_semaphore)
                                     ELSE idle_semaphore
                /\ UNCHANGED << companies, error_log >>
    /\ UNCHANGED << settings, probe, csv, batch_size, extractor, pc, pos, rows_buffer, total_rows,
                    pbar_n, work_queue, num_threads, awaited, output_csv,
                    exports >>

\* ------------------------------------------------------------ the end of the run
\* One turn of `for future in as_completed(futures)`: future.result() of a
\* finished future returns, process_batch having caught every exception.
Await ==
    /\ pc = "wait"
    /\ awaited < Cardinality(Finished)
    /\ awaited' = awaited + 1
    /\ UNCHANGED << settings, probe, csv, batch_size, extractor, pc, pos, rows_buffer, total_rows,
                    pbar_n, futures, work_queue, num_threads, idle_semaphore,
                    companies, error_log, output_csv, exports >>

\* A run that does not wait for its batches.
PoolDone_NoWait == TRUE

\* as_completed has yielded every future, and the executor's shutdown(wait=True)
\* has joined the workers.
PoolDone == awaited = Len(futures) /\ Running = {} /\ work_queue = <<>>

\* The with blocks are left.
ExitPool ==
    /\ pc = "wait"
    /\ PoolDone
    /\ pc' = "copy"
    /\ UNCHANGED << settings, probe, csv, batch_size, extractor, pos, rows_buffer, total_rows,
                    pbar_n, futures, work_queue, num_threads, idle_semaphore,
                    awaited, companies, error_log, output_csv, exports >>

\* COPY companies TO output_csv
Copy ==
    /\ pc = "copy"
    /\ output_csv' = companies
    /\ exports' = exports + 1
    /\ pc' = "done"
    /\ UNCHANGED << settings, probe, csv, batch_size, extractor, pos, rows_buffer, total_rows,
                    pbar_n, futures, work_queue, num_threads, idle_semaphore,
                    awaited, companies, error_log >>

Next ==
    \/ Open
    \/ Count
    \/ ReadRow
    \/ Remaining
    \/ Take
    \/ \E i \in 1..Len(futures) : \E answer \in Service : ExtractReturn(i, answer)
    \/ \E i \in 1..Len(futures) : \E ok \in InsertOutcomes : InsertNext(i, ok)
    \/ Await
    \/ ExitPool
    \/ Copy

Spec == Init /\ [][Next]_vars

\* The runs of RichRuns on a table whose INSERT can raise.
FaultInit ==
    /\ Start
    /\ staging = "faulty"
    /\ RichRuns
    /\ error_log_path = LoggingFile

FaultSpec == FaultInit /\ [][Next]_vars

\* The runs of RichRuns and the runs whose input file fails, with threads that
\* go on running: the main thread and every worker that can take a step takes
\* one in the end, and every call of the extractor ends.
LiveInit ==
    /\ Start
    /\ staging = "sound"
    /\ \/ RichRuns /\ error_log_path = LoggingFile
       \/ FailedRuns

LiveSpec == LiveInit /\ [][Next]_vars /\ WF_vars(Next)

\* ------------------------------------------------------------ validator runs
\* The validators: the field validators of Company and the functions of the
\* module.
Validators ==
    { "Company.validate_phone_number", "Company.validate_linkedin_url",
      "Company.validate_x_twitter_url", "Company.validate_ticket_size",
      "validate_phone_number", "validate_linkedin_url", "validate_x_twitter_url" }

\* The result of validator `kind` on `value`; ValueError when it raises.
Validate(kind, value) ==
    CASE kind = "Company.validate_phone_number" -> validate_phone_number(value)
      [] kind = "Company.validate_linkedin_url" -> validate_linkedin_url(value)
      [] kind = "Company.validate_x_twitter_url" -> validate_x_twitter_url(value)
      [] kind = "Company.validate_ticket_size" -> validate_ticket_size(value)
      [] kind = "validate_phone_number" -> module_validate_phone_number(value)
      [] kind = "validate_linkedin_url" -> module_validate_linkedin_url(value)
      [] kind = "validate_x_twitter_url" -> module_validate_x_twitter_url(value)

\* The pieces the values given to a validator are made of.
Pieces(kind) ==
    CASE kind \in {"Company.validate_phone_number", "validate_phone_number"} ->
            { <<"(", "5", "5", "5", ")">>, <<"1", "2", "3", "-">>,
              <<"4", "5", "6", "7">>, <<"+">>, <<" ">> }
      [] kind = "Company.validate_ticket_size" ->
            { <<"$">>, <<"U+20AC">>, <<"U+00E2">>, <<"1">>, <<".", "5">>, <<" ">>,
              <<"M">>, <<"c", "r">> }
      [] OTHER ->
            { HTTPS, LINKEDIN, TWITTER, XCOM, <<"/", "a">> }

\* The concatenations of at most n pieces.
RECURSIVE Values(_, _)
Values(kind, n) ==
    IF n = 0 THEN { <<>> }
    ELSE LET shorter == Values(kind, n - 1)
         IN  shorter \cup { s \o p : s \in shorter, p \in Pieces(kind) }

\* A validator and a value for it: None, or a string of at most MaxPieces
\* pieces.  The pipeline does not run.
ValidatorInit ==
    /\ pc = "validate"
    /\ v_kind \in Validators
    /\ v_in \in {None} \cup Values(v_kind, MaxPieces)
    /\ v_out = <<>>
    /\ source = "ok"
    /\ error_log_path = LoggingFile
    /\ staging = "sound"
    /\ csv = <<>>
    /\ batch_size = 1
    /\ extractor = "plain"
    /\ pos = 1
    /\ rows_buffer = <<>>
    /\ total_rows = 0
    /\ pbar_n = 0
    /\ futures = <<>>
    /\ work_queue = <<>>
    /\ num_threads = 0
    /\ idle_semaphore = 0
    /\ awaited = 0
    /\ companies = <<>>
    /\ error_log = <<>>
    /\ output_csv = <<>>
    /\ exports = 0

\* The validator is applied to the value, and then to its own result when it has
\* returned one.
Apply ==
    /\ pc = "validate"
    /\ Len(v_out) < 2
    /\ v_out # <<>> => v_out[1] # ValueError
    /\ v_out' = Append(v_out,
                       Validate(v_kind, IF v_out = <<>> THEN v_in ELSE v_out[1]))
    /\ UNCHANGED << settings, v_kind, v_in, csv, batch_size, extractor, pc, pos,
                    rows_buffer, total_rows, pbar_n, futures, work_queue,
                    num_threads, idle_semaphore, awaited, companies, error_log,
                    output_csv, exports >>

ValidatorNext == Apply

ValidatorSpec == ValidatorInit /\ [][ValidatorNext]_vars

\* ------------------------------------------------------------ properties
Units == 1..Len(futures)

\* The rows of the file with text, in order.
NonEmptyRows(rows) == SelectSeq(rows, any)

\* The extraction call of unit i has ended with a failure: chat() raised, or an
\* object of the answer does not validate.
UnitFailed(i) ==
    \/ futures[i].answer.kind = "error"
    \/ /\ futures[i].answer.kind = "json"
       /\ \E j \in 1..Len(futures[i].answer.companies) :
             \E k \in Fields :
                ValidateField(k, futures[i].answer.companies[j][k]) = ValueError

\* The valid records of an answer: the objects with a field that is neither None
\* nor "" nor "None".
ValidRecords(answer) ==
    Cardinality({ j \in 1..Len(answer.companies) :
                     \E k \in Fields :
                        answer.companies[j][k] \notin {None, <<>>, S_None} })

\* The sum of a sequence of numbers.
RECURSIVE Sum(_)
Sum(s) == IF s = <<>> THEN 0 ELSE Head(s) + Sum(Tail(s))

\* C1 (failure isolation): a unit whose extraction call fails stages no row, every
\* other unit that has finished has staged each of its valid records, the table
\* holds the rows of the units and nothing else, and when the run is done every
\* unit has finished and the output file has as many rows as the units that did
\* not fail have valid records.
FailureIsolation ==
    /\ \A i \in Finished :
          /\ UnitFailed(i) => futures[i].staged = 0
          /\ ~UnitFailed(i) => futures[i].staged = ValidRecords(futures[i].answer)
    /\ Len(companies) = Sum([i \in Units |-> futures[i].staged])
    /\ pc = "done" =>
          /\ Finished = Units
          /\ Len(output_csv) =
                Sum([i \in Units |-> IF UnitFailed(i) THEN 0
                                     ELSE ValidRecords(futures[i].answer)])

\* The second of three units has failed, the first and the third have staged
\* their rows, and the run is done.
FailureIsolationWitness ==
    /\ pc = "done"
    /\ Len(futures) = 3
    /\ UnitFailed(2)
    /\ futures[1].staged > 0
    /\ futures[3].staged > 0
    /\ Len(output_csv) = futures[1].staged + futures[3].staged

\* An object with the fields that fail their validation set to None.
Cleared(obj) ==
    [k \in Fields |-> IF ValidateField(k, obj[k]) = ValueError THEN None
                      ELSE ValidateField(k, obj[k])]

\* C2 (field validation never fails a batch): when the extractor has returned
\* objects, each with a name, a field that violates its format rule is cleared
\* and nothing else: the unit stages every object that has a non-empty field
\* left, and no line of the error log is written for the unit.
FieldValidationClearsOnly ==
    \A i \in Finished :
       (/\ futures[i].answer.kind = "json"
        /\ \A j \in 1..Len(futures[i].answer.companies) :
              futures[i].answer.companies[j]["Company_Name"] # None)
       => /\ futures[i].staged =
                Cardinality({ j \in 1..Len(futures[i].answer.companies) :
                    \E k \in Fields :
                       Cleared(futures[i].answer.companies[j])[k]
                          \notin {None, <<>>, S_None} })
          /\ \A n \in 1..Len(error_log) : error_log[n].unit # i

\* C3 as the claim states it: every row of the table has a non-empty field other
\* than Company_Name.
InsertFilterNameExcluded ==
    \A n \in 1..Len(companies) : \E c \in 2..Len(Columns) : companies[n][c] # <<>>

\* C3 as amended: every row of the table has a non-empty field, Company_Name
\* being one of the fields that count; an object is dropped only when all its
\* fields, the name among them, are None, "" or "None".
InsertFilterAnyField ==
    /\ \A n \in 1..Len(companies) : \E c \in 1..Len(Columns) : companies[n][c] # <<>>
    /\ \A i \in Finished :
          ~UnitFailed(i) => futures[i].staged = ValidRecords(futures[i].answer)

\* A row with the name alone is in the table, and a unit has finished that
\* dropped an object with no field set.
InsertFilterWitness ==
    /\ \E n \in 1..Len(companies) :
          /\ companies[n][1] = S_Solo
          /\ \A c \in 2..Len(Columns) : companies[n][c] = <<>>
    /\ \E i \in Finished :
          /\ ~UnitFailed(i)
          /\ futures[i].staged < Len(futures[i].answer.companies)

CeilDiv(n, b) == (n + b - 1) \div b

\* The main thread has left the loop over the rows.
ReadingDone == pc \in {"wait", "copy", "done"}

\* C4 (batch completeness): once the rows are read, N rows with text and batch
\* size B have given ceil(N/B) units, the last of N mod B rows, or of B rows when
\* B divides N.
BatchCompleteness ==
    ReadingDone =>
       LET N == Len(NonEmptyRows(csv))
           B == batch_size
       IN  /\ Len(futures) = CeilDiv(N, B)
           /\ N > 0 => Len(futures[Len(futures)].rows) =
                          IF N % B = 0 THEN B ELSE N % B

\* Three rows with text and batch size 2 have given two units, the last of one
\* row.
BatchCompletenessWitness ==
    /\ pc = "done"
    /\ batch_size = 2
    /\ Len(NonEmptyRows(csv)) = 3
    /\ Len(futures) = 2
    /\ Len(futures[2].rows) = 1

Min(a, b) == IF a < b THEN a ELSE b

\* The rows s cut into runs of B, the last one shorter when B does not divide.
Chunks(s, B) ==
    [i \in 1..CeilDiv(Len(s), B) |-> SubSeq(s, (i - 1) * B + 1, Min(i * B, Len(s)))]

\* The rows the loop has gone through.
RowsRead == IF pc \in {"open", "count", "failed"} THEN <<>> ELSE SubSeq(csv, 1, pos - 1)

\* C5 (empty-row skip): no unit and no buffer holds a row without text; the units
\* and the buffer are the runs of batch_size rows of the rows with text read so
\* far, whatever rows without text lie between them; and the error log has
\* lines for failed extraction calls only.
EmptyRowSkip ==
    /\ \A i \in Units : \A j \in 1..Len(futures[i].rows) : any(futures[i].rows[j])
    /\ \A j \in 1..Len(rows_buffer) : any(rows_buffer[j])
    /\ LET chunks == Chunks(NonEmptyRows(RowsRead), batch_size)
           units == [i \in Units |-> futures[i].rows]
       IN  IF ReadingDone
           THEN units = chunks
           ELSE \/ units = chunks /\ rows_buffer = <<>>
                \/ /\ chunks # <<>>
                   /\ units = SubSeq(chunks, 1, Len(chunks) - 1)
                   /\ rows_buffer = chunks[Len(chunks)]
    /\ \A n \in 1..Len(error_log) :
          error_log[n].unit \in Finished /\ UnitFailed(error_log[n].unit)

\* A unit of two rows has been sealed across a row without text.
EmptyRowSkipWitness ==
    /\ pc = "done"
    /\ Len(csv) = 3
    /\ any(csv[1]) /\ ~any(csv[2]) /\ any(csv[3])
    /\ Len(futures) = 1
    /\ futures[1].rows = << csv[1], csv[3] >>

\* The number of times i is in the queue.
Queued(i) == Cardinality({n \in 1..Len(work_queue) : work_queue[n] = i})

\* C6 (one extraction attempt a unit): a unit is in the queue once until a worker
\* takes it and never again, and the extractor is called once for a unit that a
\* worker has taken, whether the call fails or not.
OneAttemptPerUnit ==
    \A i \in Units :
       /\ futures[i].calls <= 1
       /\ futures[i].state = "PENDING" => futures[i].calls = 0 /\ Queued(i) = 1
       /\ futures[i].state # "PENDING" => futures[i].calls = 1 /\ Queued(i) = 0

\* A run is done in which a call of the extractor has failed.
OneAttemptWitness ==
    /\ pc = "done"
    /\ \E i \in Units : futures[i].answer.kind = "error" /\ futures[i].calls = 1

\* C7 (bounded concurrency): at most max_workers calls of the extractor are in
\* flight.
BoundedConcurrency == Cardinality(InFlight) <= max_workers

\* Four calls are in flight and more units are in the queue.
BoundedConcurrencyWitness ==
    /\ Cardinality(InFlight) = max_workers
    /\ work_queue # <<>>
    /\ Len(futures) > max_workers

\* C8 (progress within the total): the count of the progress bar never goes down
\* and never exceeds the total counted at the start.
ProgressMonotoneBounded ==
    [][pbar_n' >= pbar_n /\ pbar_n' <= total_rows']_vars

\* C9 (progress by completed unit): the count of the progress bar is at most the
\* number of rows of the units that have finished.
ProgressAfterCompletion ==
    pbar_n <= Sum([i \in Units |-> IF i \in Finished THEN Len(futures[i].rows) ELSE 0])

\* C10 (one export, after every unit): the table is copied at most once, once
\* when the run is done, and from the copy on every unit has finished, the queue
\* is empty and the output file holds the rows of the table.
ExportOnceAfterAll ==
    /\ exports <= 1
    /\ pc = "done" => exports = 1
    /\ exports >= 1 =>
          /\ pc = "done"
          /\ Finished = Units
          /\ work_queue = <<>>
          /\ output_csv = companies

\* The run is done with rows of two units in the output file and a failed unit.
ExportOnceWitness ==
    /\ pc = "done"
    /\ exports = 1
    /\ Cardinality({i \in Units : futures[i].staged > 0}) >= 2
    /\ \E i \in Units : UnitFailed(i)
    /\ output_csv = companies

\* C16 (mandatory name): every row of the table has a Company_Name that is not
\* empty.
StagedNameNonEmpty ==
    \A n \in 1..Len(companies) : companies[n][1] \notin {None, <<>>}

\* C17 (source failure): when the input file cannot be opened or has no header
\* row the run stops where it opens the file: no batch is submitted, no call of
\* the extractor is made, the table stays empty, nothing is logged and nothing
\* is copied to the output file.
SourceFailureAborts ==
    source # "ok" =>
        /\ pc \in {"open", "failed"}
        /\ futures = <<>>
        /\ work_queue = <<>>
        /\ num_threads = 0
        /\ companies = <<>>
        /\ error_log = <<>>
        /\ exports = 0
        /\ output_csv = <<>>

\* The run has stopped on a file without a header row.
SourceFailureWitness ==
    /\ source = "no_header"
    /\ pc = "failed"

\* C20 (rows per unit): the number of rows staged from a unit is at most the
\* number of rows of the file submitted in it.
StagedAtMostSubmitted ==
    \A i \in Units : futures[i].staged <= Len(futures[i].rows)

\* The rows of the units, unit by unit in the order of submission.
UnitRows == [i \in Units |-> futures[i].rows]

\* The concatenation of a sequence of sequences.
RECURSIVE Concat(_)
Concat(ss) == IF ss = <<>> THEN <<>> ELSE Head(ss) \o Concat(Tail(ss))

\* C19 (partition keeps the order): while the file is read, the units in the
\* order of submission followed by the buffer are the rows read so far without
\* the rows that have no text; once the file is read the units alone are the rows
\* of the file without those rows; every unit has between 1 and batch_size rows;
\* and no step changes the rows of a unit that has been submitted.
PartitionPreservesOrder ==
    /\ [](/\ pc = "read" =>
                Concat(UnitRows) \o rows_buffer = NonEmptyRows(RowsRead)
          /\ pc \in {"wait", "copy", "done"} =>
                Concat(UnitRows) = NonEmptyRows(csv)
          /\ \A i \in Units : Len(futures[i].rows) \in 1..batch_size)
    /\ [][\A i \in Units :
             /\ i <= Len(futures')
             /\ futures'[i].rows = futures[i].rows]_vars

\* The file with two rows without text is read at batch size 2: a full unit and
\* a smaller last one, both finished.
PartitionWitness ==
    /\ pc = "done"
    /\ Len(NonEmptyRows(csv)) < Len(csv)
    /\ Len(futures) = 2
    /\ Len(futures[1].rows) = 2
    /\ Len(futures[2].rows) = 1
    /\ futures[1].rows[1] # futures[1].rows[2]

\* The rows a unit has inserted so far: the rows of the objects of its answer
\* that process_batch has gone through and kept.
Inserted(i) ==
    IF futures[i].answer.kind # "json" \/ UnitFailed(i) THEN <<>>
    ELSE LET all == Companies(futures[i].answer)
             seen == SubSeq(all, 1, Len(all) - Len(futures[i].todo))
             kept == SelectSeq(seen, InsertFilter)
         IN  [n \in 1..Len(kept) |-> Row(kept[n])]

\* The rows an answer of the extractor yields, whatever the order of the workers.
RowsOf(answer) ==
    IF ExtractionFails(answer) THEN <<>>
    ELSE LET kept == SelectSeq(Companies(answer), InsertFilter)
         IN  [n \in 1..Len(kept) |-> Row(kept[n])]

\* How many times r occurs in a sequence.
Occurrences(s, r) == Cardinality({n \in 1..Len(s) : s[n] = r})

\* Two sequences hold the same elements the same number of times.
SameBag(a, b) ==
    /\ Len(a) = Len(b)
    /\ \A n \in 1..Len(a) : Occurrences(a, a[n]) = Occurrences(b, a[n])

\* C14 (linearized inserts): in every state the table holds, as a multiset,
\* exactly the rows the units have inserted so far, and the output file holds
\* the rows that the answers of the units yield, each as often as it was
\* inserted: a function of the answers alone, not of the order of the workers.
LinearizedInserts ==
    /\ SameBag(companies, Concat([i \in Units |-> Inserted(i)]))
    /\ exports >= 1 =>
          SameBag(output_csv, Concat([i \in Units |-> RowsOf(futures[i].answer)]))

\* The run is done, its three units have all staged rows, a row of the second
\* unit came first, and the first and the third unit have staged the same row.
LinearizedWitness ==
    /\ pc = "done"
    /\ Len(futures) = 3
    /\ \A i \in Units : futures[i].staged > 0
    /\ companies[1] = Inserted(2)[1]
    /\ Occurrences(companies, companies[1]) = 1
    /\ Inserted(1) = Inserted(3)
    /\ Occurrences(companies, Inserted(1)[1]) = 2
    /\ output_csv = companies

\* The content of the file named by --error-log.  process_csv opens it for
\* writing, which empties it, and writes nothing to it; log_error writes to
\* LoggingFile.
ErrorLogFile == IF error_log_path = LoggingFile THEN error_log ELSE <<>>

\* The number of entries of a log about unit i.
EntriesOf(log, i) == Cardinality({n \in 1..Len(log) : log[n].unit = i})

\* C12 (error log completeness): when the run is done the error log holds one
\* entry for each unit that failed and none for any other unit.
ErrorLogComplete ==
    pc = "done" =>
        \A i \in Units :
            EntriesOf(ErrorLogFile, i) = IF UnitFailed(i) THEN 1 ELSE 0

\* C13 (insert failure scoped to one record): a unit whose extraction call
\* succeeded and that has finished has gone through each of its valid records:
\* each one is staged, or its INSERT failed and it alone is missing.
InsertFailureScoped ==
    \A i \in Finished :
        ~UnitFailed(i) =>
            futures[i].staged + futures[i].raised = ValidRecords(futures[i].answer)

\* The order of the phases of a run: the file is opened, its rows are counted,
\* the rows are read and the batches submitted, the futures are awaited, the
\* table is copied, the run is done; a run fails only where it opens the file.
PhaseOrder ==
    { <<"open", "count">>, <<"open", "failed">>, <<"count", "read">>,
      <<"read", "wait">>, <<"wait", "copy">>, <<"copy", "done">> }

\* C11 (termination): a run whose input file opens never fails, goes through its
\* phases in order, and is done in the end, however many units fail.
RunTerminates ==
    /\ [](source = "ok" => pc # "failed")
    /\ [][pc' # pc => << pc, pc' >> \in PhaseOrder]_vars
    /\ (source = "ok" /\ pc = "open") ~> (pc = "done")

\* The run is done and each of its three units has failed.
RunTerminatesWitness ==
    /\ source = "ok"
    /\ pc = "done"
    /\ Len(futures) = 3
    /\ \A i \in Units : UnitFailed(i)
    /\ \E i \in Units : futures[i].answer.kind = "error"
    /\ \E i \in Units : futures[i].answer.kind = "json"

\* C18 (validator idempotence): a validator applied to a result it has returned
\* returns that result.
ValidatorIdempotent ==
    Len(v_out) = 2 => v_out[2] = v_out[1]

\* The validator of the phone number has returned a number that differs from
\* the value it was given, and has been applied to that number.
ValidatorIdempotentWitness ==
    /\ v_kind = "Company.validate_phone_number"
    /\ Len(v_out) = 2
    /\ v_out[1] \notin {None, ValueError, <<>>, v_in}

\* The value of a column of a row of the table.
Col(row, name) == row[CHOOSE i \in 1..Len(Columns) : Columns[i] = name]

\* The currency signs of the format rule of the ticket size: the dollar, the
\* euro (U+20AC) and the rupee (U+20B9) sign.
CurrencySigns == {"$", "U+20AC", "U+20B9"}

\* The format rule of the ticket size: an optional currency sign, then an
\* amount with an optional suffix.
CurrencyAmount(s) ==
    LET amount == IF s # <<>> /\ Head(s) \in CurrencySigns THEN Tail(s) ELSE s
    IN  /\ amount # <<>>
        /\ Head(amount) \in Digits
        /\ MatchesTicket(amount)

\* C15 (staged fields are well formed): in every row of the table the phone
\* number, the LinkedIn link, the X/Twitter link and the ticket size are each
\* empty or of the format of the field.
StagedFieldsWellFormed ==
    \A n \in 1..Len(companies) :
        LET row == companies[n]
            phone == Col(row, "Company_Phone_Number")
            linkedin == Col(row, "LinkedIn_Link")
            twitter == Col(row, "X_Twitter_Account_Link")
            ticket == Col(row, "Ticket_Size")
        IN  /\ phone = <<>> \/ MatchesPhone(phone)
            /\ linkedin = <<>> \/ Contains(linkedin, LINKEDIN)
            /\ twitter = <<>> \/ Contains(twitter, TWITTER) \/ Contains(twitter, XCOM)
            /\ ticket = <<>> \/ CurrencyAmount(ticket)

====
